---- MODULE Spec2Model ----
(***************************************************************************)
(* Model of cratedb_toolkit.api.main: the ManagedCluster controller        *)
(* (construction, probe, deploy, acquire, start, load_table and the        *)
(* memoized get_client_bundle) against an opaque cloud control plane.      *)
(*                                                                         *)
(* Every public method is one action that runs the whole method body.      *)
(* What the remote collaborators answer (ClusterInformation.from_id_or_    *)
(* name, CloudManager, CloudIo, the database connection) is drawn          *)
(* nondeterministically per call.  The variable `last` records the most    *)
(* recent call: its receiver, the receiver's state before the call, the    *)
(* collaborators' answers it consumed, the ordered calls and log events it *)
(* made, and how it ended.                                                 *)
(***************************************************************************)
EXTENDS Integers, Sequences, FiniteSets, TLC

VARIABLES
    ctl,      \* controller instance -> its fields (made, id, name, info, exists, settings)
    cache,    \* the lru_cache of get_client_bundle: entries, most recently used last
    nconn,    \* number of database connections opened so far (DatabaseAdapter instances)
    served,   \* cache key -> serial of the bundle most recently returned for it (0: none)
    last,     \* record of the most recent method call
    standalone,  \* a StandaloneCluster and its most recent load_table call
    dbaddress,   \* a DatabaseAddress and the most recent evaluation of a view of it
    pairs        \* AddressPair objects and the query parameter dictionaries they hold

vars == <<ctl, cache, nconn, served, last, standalone, dbaddress, pairs>>

----------------------------------------------------------------------------
(* Values *)

\* Python's None.
Null == "None"

\* Python's empty string (falsy, but not None).
Empty == ""

\* The controller instances of one process.
Ctrls == {"c1", "c2"}

\* Bound on the database connections opened in one behaviour.
MaxConn == 3

\* maxsize of the lru_cache decorating get_client_bundle.
CacheMaxSize == 1

\* A URL as (scheme, host, query); NoUrl stands for a missing "url" key.
\* ssl is the value of the `ssl` query parameter, Null when there is none.
NoUrl == [scheme |-> Null, host |-> Null, ssl |-> Null]
Url1 == [scheme |-> "https", host |-> "h1", ssl |-> Null]
Url2 == [scheme |-> "http", host |-> "h2", ssl |-> Null]

\* The `cloud` dictionary of a ClusterInformation, over the keys the code reads.
\* A key holding Null / NoUrl is a key that is not in the dictionary.
EmptyCloud == [id |-> Null, name |-> Null, url |-> NoUrl]

\* The cluster metadata the control plane can report.
Responses ==
    { [id |-> "i1", name |-> "n1", url |-> Url1],
      [id |-> "i1", name |-> "n1", url |-> Url2] }

\* Truth value of a Python dict: non-empty.
DictTruthy(d) == d.id # Null \/ d.name # Null \/ d.url # NoUrl

\* Truth value of an optional Python string.
Truthy(s) == s # Null /\ s # Empty

\* Python's `a or b`.
PyOr(a, b) == IF Truthy(a) THEN a ELSE b

----------------------------------------------------------------------------
(* Exceptions: a type and a message, the message as a sequence of phrases *)

\* cause: the exception this one was raised `from`, as a sequence of length 0 or 1.
NoErr == [type |-> Null, text |-> <<>>, cause |-> <<>>]

Err(type, text) == [type |-> type, text |-> text, cause |-> <<>>]

\* `raise type(text) from ex`
ErrFrom(type, text, ex) == [type |-> type, text |-> text, cause |-> <<ex>>]

\* `phrase in str(ex)`
InText(phrase, ex) == \E i \in 1..Len(ex.text) : ex.text[i] = phrase

\* What ClusterInformation.from_id_or_name can raise.
ErrNotFound == Err("CroudException", <<"Cluster not found", "lookup">>)
ErrApi == Err("CroudException", <<"Internal server error">>)
ErrValue == Err("ValueError", <<"Failed to address cluster">>)
ErrNetwork == Err("ConnectionError", <<"Connection refused">>)

ProbeErrors == {ErrNotFound, ErrApi, ErrValue, ErrNetwork}

\* One answer of the control plane to a cluster lookup.
Found(r) == [ok |-> TRUE, cloud |-> r, err |-> NoErr]
Failed(e) == [ok |-> FALSE, cloud |-> EmptyCloud, err |-> e]

Lookups == {Found(r) : r \in Responses} \cup {Failed(e) : e \in ProbeErrors}

\* Metadata that lacks a key the code reads: an empty dictionary, and one
\* without "name".
PartialResponses ==
    { EmptyCloud, [id |-> "i1", name |-> Null, url |-> Url1] }

\* Every answer to a lookup, the ones with partial metadata included.
AllLookups == Lookups \cup {Found(r) : r \in PartialResponses}

\* self.info.cloud["id"] and self.info.cloud["name"] on a dictionary without
\* the key.
ErrKeyId == Err("KeyError", <<"id">>)
ErrKeyName == Err("KeyError", <<"name">>)

----------------------------------------------------------------------------
(* ManagedCluster: construction *)

\* A ManagedClusterSettings object, as far as the controller reads it.
Settings(cluster_id, cluster_name, username, password) ==
    [cluster_id |-> cluster_id, cluster_name |-> cluster_name,
     username |-> username, password |-> password]

\* The slot of a controller that has not been constructed.
Unmade ==
    [made |-> FALSE, id |-> Null, name |-> Null, info |-> EmptyCloud,
     exists |-> FALSE, username |-> Null, password |-> Null]

\* __init__, up to the sanity check: the fields as assigned.
init_fields(id, name, settings, info) ==
    [made |-> TRUE,
     id |-> PyOr(id, settings.cluster_id),
     name |-> PyOr(name, settings.cluster_name),
     info |-> info,
     exists |-> FALSE,
     username |-> settings.username,
     password |-> settings.password]

\* Faulty variant of init_rejects: construction insists on both id and name.
init_rejects_either(self) == self.id = Null \/ self.name = Null

\* __init__: the sanity check that makes construction raise.
init_rejects(self) == self.id = Null /\ self.name = Null

ErrNoAddress ==
    Err("ValueError",
        <<"Failed to address cluster: Either cluster identifier or name needs to be specified">>)

----------------------------------------------------------------------------
(* The outcome of running a method body on a controller `self`:            *)
(*   self    the controller's fields afterwards                            *)
(*   raised  the exception that escaped, or NoErr                          *)
(*   trace   the collaborator calls and log events, in order               *)
(*   lookups the control plane's answers to the cluster lookups, in order  *)

Ran(self, raised, trace, lookups) ==
    [self |-> self, raised |-> raised, trace |-> trace, lookups |-> lookups]

\* Sequencing: `first` ran; unless it raised, continue with `rest`.
Then(first, rest) ==
    [self |-> rest.self, raised |-> rest.raised,
     trace |-> first.trace \o rest.trace,
     lookups |-> first.lookups \o rest.lookups]

----------------------------------------------------------------------------
(* ManagedCluster.probe *)

\* Faulty variant of probe_assign: id and name are taken from the response
\* only where the controller has none yet.
probe_assign_fills_unset(self, cloud) ==
    [self EXCEPT !.info = cloud,
                 !.id = IF self.id = Null THEN cloud.id ELSE self.id,
                 !.name = IF self.name = Null THEN cloud.name ELSE self.name]

\* The try body: store the response, take id and name from it.
probe_assign(self, cloud) ==
    [self EXCEPT !.info = cloud, !.id = cloud.id, !.name = cloud.name]

\* The except clause catches these exception types only.
probe_catches(ex) == ex.type \in {"CroudException", "ValueError"}

\* Faulty variant of probe_reraises: every CroudException is absorbed.
probe_reraises_by_type(ex) == ex.type # "CroudException"

\* Inside the except clause: is the exception raised again?
probe_reraises(ex) == ~InText("Cluster not found", ex)

\* Faulty variant of probe_except: exists keeps its value.
probe_except_keeps(self) == self

\* The first statement of the except clause.
probe_except(self) == [self EXCEPT !.exists = FALSE]

\* After the try statement: a non-empty info.cloud marks the cluster as existing.
probe_tail(self) ==
    IF DictTruthy(self.info) THEN [self EXCEPT !.exists = TRUE] ELSE self

\* probe(), given the control plane's answer `o` to the lookup.
probe(self, o) ==
    IF o.ok /\ o.cloud.id = Null
    THEN Ran([self EXCEPT !.info = o.cloud], ErrKeyId, <<"from_id_or_name">>, <<o>>)
    ELSE IF o.ok /\ o.cloud.name = Null
    THEN Ran([self EXCEPT !.info = o.cloud, !.id = o.cloud.id], ErrKeyName,
             <<"from_id_or_name">>, <<o>>)
    ELSE IF o.ok
    THEN Ran(probe_tail(probe_assign(self, o.cloud)), NoErr,
             <<"from_id_or_name", "log.cluster_information">>, <<o>>)
    ELSE IF ~probe_catches(o.err)
    THEN Ran(self, o.err, <<"from_id_or_name">>, <<o>>)
    ELSE LET s1 == probe_except(self) IN
         IF probe_reraises(o.err)
         THEN Ran(s1, o.err, <<"from_id_or_name">>, <<o>>)
         ELSE LET s2 == probe_tail(s1) IN
              Ran(s2, NoErr,
                  IF s2.exists
                  THEN <<"from_id_or_name", "log.cluster_information">>
                  ELSE <<"from_id_or_name">>,
                  <<o>>)

----------------------------------------------------------------------------
(* ManagedCluster.deploy *)

ErrNoName == Err("ValueError", <<"Need cluster name to deploy">>)
ErrProject == Err("CroudException", <<"Creating project failed">>)
ErrDeploy == Err("CroudException", <<"Deploying cluster failed">>)

\* What the CloudManager does with one deployment request.
DeployAnswers == {"deployed", "create_project_failed", "deploy_cluster_failed"}

\* Faulty variant of deploy: the project is created before the name is looked at.
deploy_checks_name_late(self, d) ==
    IF d = "create_project_failed"
    THEN Ran(self, ErrProject, <<"create_project">>, <<>>)
    ELSE IF self.name = Null
    THEN Ran(self, ErrNoName, <<"create_project", "log.created_project">>, <<>>)
    ELSE IF d = "deploy_cluster_failed"
    THEN Ran(self, ErrDeploy,
             <<"create_project", "log.created_project", "deploy_cluster">>, <<>>)
    ELSE Ran(self, NoErr,
             <<"create_project", "log.created_project", "deploy_cluster">>, <<>>)

\* deploy(), given the CloudManager's answer `d`.
deploy(self, d) ==
    IF self.name = Null
    THEN Ran(self, ErrNoName, <<>>, <<>>)
    ELSE IF d = "create_project_failed"
    THEN Ran(self, ErrProject, <<"create_project">>, <<>>)
    ELSE IF d = "deploy_cluster_failed"
    THEN Ran(self, ErrDeploy,
             <<"create_project", "log.created_project", "deploy_cluster">>, <<>>)
    ELSE Ran(self, NoErr,
             <<"create_project", "log.created_project", "deploy_cluster">>, <<>>)

----------------------------------------------------------------------------
(* ManagedCluster.acquire and start *)

ErrDeploymentFailed(name) ==
    Err("CroudException", <<"Deployment of cluster failed", name>>)

\* Faulty variant of acquire_verdict: a cluster still missing after the
\* second probe is deployed once more before acquire() gives up.
acquire_verdict_redeploys(self) ==
    IF ~self.exists
    THEN Ran(self, ErrDeploymentFailed(self.name),
             <<"create_project", "deploy_cluster">>, <<>>)
    ELSE Ran(self, NoErr, <<>>, <<>>)

\* The end of acquire(): after the second probe returned.
acquire_verdict(self) ==
    IF ~self.exists
    THEN Ran(self, ErrDeploymentFailed(self.name), <<>>, <<>>)
    ELSE Ran(self, NoErr, <<>>, <<>>)

\* The branch of acquire() taken when the first probe left exists == False.
acquire_deploy(self, d, o2) ==
    LET dp == Then(Ran(self, NoErr, <<"log.deploying">>, <<>>), deploy(self, d)) IN
    IF dp.raised # NoErr THEN dp
    ELSE LET p2 == Then(dp, Then(Ran(dp.self, NoErr,
                                     <<"log.deployed", "sleep">>, <<>>),
                                 probe(dp.self, o2))) IN
         IF p2.raised # NoErr THEN p2
         ELSE Then(p2, acquire_verdict(p2.self))

\* Faulty variant of acquire_needs_deploy: acquire() deploys whatever the
\* probe found.
acquire_needs_deploy_always(self) == self.exists \/ ~self.exists

\* Does acquire() go on to deploy after its first probe?
acquire_needs_deploy(self) == ~self.exists

\* acquire(), given the answers to the first lookup, the deployment and the
\* second lookup (the latter two are consumed only when that step is reached).
acquire(self, o1, d, o2) ==
    LET p1 == probe(self, o1) IN
    IF p1.raised # NoErr THEN p1
    ELSE IF acquire_needs_deploy(p1.self)
    THEN Then(p1, acquire_deploy(p1.self, d, o2))
    ELSE p1

\* start(): a log line, then acquire().
start(self, o1, d, o2) ==
    Then(Ran(self, NoErr, <<"log.starting">>, <<>>), acquire(self, o1, d, o2))

----------------------------------------------------------------------------
(* ManagedCluster.load_table *)

ErrNoId == Err("ValueError", <<"Need cluster identifier to load table">>)
ErrCloudIo == Err("CroudException", <<"Unable to connect to cluster resource">>)
ErrLoadResource == Err("CroudException", <<"Import request failed">>)
ErrKeyUrl == Err("KeyError", <<"url">>)

\* A CloudJob, as far as load_table reads it.
NoJob == [success |-> FALSE, message |-> Null, table |-> Null]
JobDone == [success |-> TRUE, message |-> "Import succeeded", table |-> "t1"]
JobFailed == [success |-> FALSE, message |-> "Import failed", table |-> "t1"]

\* What CloudIo(...) does: is constructed, or raises.
CloudIoAnswers == {"connected", "raises"}

\* What cio.load_resource(...) does: returns a job, or raises.
LoadAnswers ==
    { [raises |-> FALSE, job |-> JobDone],
      [raises |-> FALSE, job |-> JobFailed],
      [raises |-> TRUE, job |-> NoJob] }

\* The outcome of load_table: the run, the cluster_id handed to CloudIo (Null
\* when CloudIo was never constructed) and the job returned (NoJob when none).
Loaded(run, cluster_id, job) == [run |-> run, cluster_id |-> cluster_id, job |-> job]

\* Faulty variant of load_table_rejects: the identifier is not checked.
load_table_rejects_never(self) == self.id = Null /\ self.id # Null

\* The sanity check on the identifier, after the initial probe.
load_table_rejects(self) == self.id = Null

\* Faulty variant of load_table_job: a failed job raises without the guidance
\* message being logged.
load_table_job_silent(self, lr) ==
    IF lr.raises
    THEN Loaded(Ran(self,
                    ErrFrom("OperationFailed",
                            <<"Data loading failed", "Unknown error">>, ErrLoadResource),
                    <<"load_resource", "log.exception">>, <<>>),
                self.id, NoJob)
    ELSE IF self.info.url = NoUrl
    THEN Loaded(Ran(self, ErrKeyUrl, <<"load_resource", "log.job_information">>, <<>>),
                self.id, NoJob)
    ELSE IF lr.job.success
    THEN Loaded(Ran(self, NoErr,
                    <<"load_resource", "log.job_information", "log.guidance_success">>,
                    <<>>),
                self.id, lr.job)
    ELSE Loaded(Ran(self, Err("OperationFailed", <<"Data loading failed", lr.job.message>>),
                    <<"load_resource", "log.job_information">>, <<>>),
                self.id, NoJob)

\* The second try statement: load_resource and the evaluation of its job.
load_table_job(self, lr) ==
    IF lr.raises
    THEN Loaded(Ran(self,
                    ErrFrom("OperationFailed",
                            <<"Data loading failed", "Unknown error">>, ErrLoadResource),
                    <<"load_resource", "log.exception">>, <<>>),
                self.id, NoJob)
    ELSE IF self.info.url = NoUrl
    THEN Loaded(Ran(self, ErrKeyUrl, <<"load_resource", "log.job_information">>, <<>>),
                self.id, NoJob)
    ELSE IF lr.job.success
    THEN Loaded(Ran(self, NoErr,
                    <<"load_resource", "log.job_information", "log.guidance_success">>,
                    <<>>),
                self.id, lr.job)
    ELSE Loaded(Ran(self, Err("OperationFailed", <<"Data loading failed", lr.job.message>>),
                    <<"load_resource", "log.job_information", "log.guidance_error">>,
                    <<>>),
                self.id, NoJob)

\* The first try statement: constructing the I/O collaborator.
load_table_connect(self, cio, lr) ==
    IF cio = "raises"
    THEN Loaded(Ran(self,
                    ErrFrom("OperationFailed",
                            <<"Connecting to cluster resource failed", self.id>>,
                            ErrCloudIo),
                    <<"CloudIo", "log.exception">>, <<>>),
                self.id, NoJob)
    ELSE LET j == load_table_job(self, lr) IN
         Loaded(Then(Ran(self, NoErr, <<"CloudIo">>, <<>>), j.run), j.cluster_id, j.job)

\* load_table(), given the answers of the control plane, of CloudIo(...) and of
\* load_resource(...).
load_table(self, o, cio, lr) ==
    LET p == probe(self, o) IN
    IF p.raised # NoErr THEN Loaded(p, Null, NoJob)
    ELSE IF load_table_rejects(p.self)
    THEN Loaded(Then(p, Ran(p.self, ErrNoId, <<>>, <<>>)), Null, NoJob)
    ELSE LET l == load_table_connect(p.self, cio, lr) IN
         Loaded(Then(p, l.run), l.cluster_id, l.job)

----------------------------------------------------------------------------
(* DatabaseAddress, as far as get_client_bundle uses it *)

\* DatabaseAddress.from_httpuri: https becomes the query flag ssl=true, and the
\* scheme becomes the database's own.
from_httpuri(url) ==
    [scheme |-> "crate", host |-> url.host,
     ssl |-> IF url.scheme = "https" THEN "true" ELSE url.ssl,
     username |-> Null, password |-> Null]

\* DatabaseAddress.with_credentials
with_credentials(address, username, password) ==
    [address EXCEPT !.username = username, !.password = password]

----------------------------------------------------------------------------
(* ManagedCluster.get_client_bundle, under functools.lru_cache *)

ErrConnect == Err("OperationalError", <<"Connection refused">>)

\* The credentials callers pass, and the defaults the settings hold.
CredentialArgs == { <<Null, Null>>, <<"alice", "pw">> }
DefaultCredentials == { <<Null, Null>>, <<"admin", "s3">> }

NoAddress == [scheme |-> Null, host |-> Null, ssl |-> Null,
              username |-> Null, password |-> Null]

\* A ClientBundle: `serial` is the identity of its connection, `dburi` the
\* address the connection was opened to, `key` the call it was built in.
NoBundle == [serial |-> 0, dburi |-> NoAddress, key |-> <<>>]

\* The key lru_cache computes for a call: the receiver and the arguments.
cache_key(c, username, password) == <<c, username, password>>

CacheKeys == { cache_key(c, cr[1], cr[2]) : c \in Ctrls, cr \in CredentialArgs }

\* Index of the entry of `entries` stored under `key`, 0 when there is none.
cache_find(entries, key) ==
    IF \E i \in 1..Len(entries) : entries[i].key = key
    THEN CHOOSE i \in 1..Len(entries) : entries[i].key = key
    ELSE 0

\* A hit makes the entry the most recently used one.
cache_touch(entries, i) ==
    SubSeq(entries, 1, i - 1) \o SubSeq(entries, i + 1, Len(entries)) \o <<entries[i]>>

\* A new entry is stored; beyond maxsize the least recently used one goes.
cache_store(entries, key, value) ==
    LET all == Append(entries, [key |-> key, value |-> value]) IN
    IF Len(all) > CacheMaxSize THEN SubSeq(all, Len(all) - CacheMaxSize + 1, Len(all))
    ELSE all

\* The argument, or the settings' default when the argument is None.
effective(arg, default) == IF arg = Null THEN default ELSE arg

\* The address the method body connects to.
bundle_address(self, username, password) ==
    with_credentials(from_httpuri(self.info.url),
                     effective(username, self.username),
                     effective(password, self.password))

\* The outcome of get_client_bundle: the run, the bundle returned, whether the
\* cache answered, and the cache and connection count afterwards.
Bundled(run, bundle, hit, entries, n) ==
    [run |-> run, bundle |-> bundle, hit |-> hit, cache |-> entries, nconn |-> n]

\* The decorated method body, run on a cache miss; `connects` says whether the
\* database accepts the connection.
client_bundle_body(entries, n, c, self, username, password, connects) ==
    IF self.info.url = NoUrl
    THEN Bundled(Ran(self, ErrKeyUrl, <<>>, <<>>), NoBundle, FALSE, entries, n)
    ELSE IF ~connects
    THEN Bundled(Ran(self, ErrConnect, <<"log.connecting", "DatabaseAdapter">>, <<>>),
                 NoBundle, FALSE, entries, n)
    ELSE LET b == [serial |-> n + 1,
                   dburi |-> bundle_address(self, username, password),
                   key |-> cache_key(c, username, password)] IN
         Bundled(Ran(self, NoErr, <<"log.connecting", "DatabaseAdapter">>, <<>>),
                 b, FALSE, cache_store(entries, cache_key(c, username, password), b),
                 n + 1)

\* get_client_bundle(username, password) on controller c.
get_client_bundle(entries, n, c, self, username, password, connects) ==
    LET i == cache_find(entries, cache_key(c, username, password)) IN
    IF i # 0
    THEN Bundled(Ran(self, NoErr, <<>>, <<>>), entries[i].value, TRUE,
                 cache_touch(entries, i), n)
    ELSE client_bundle_body(entries, n, c, self, username, password, connects)

----------------------------------------------------------------------------
(* The state machine *)

\* The arguments callers construct a controller with.
IdArgs == {Null, Empty, "i0"}
NameArgs == {Null, "n0"}
InfoArgs == {EmptyCloud} \cup Responses

\* The record of a call: `pre` is the receiver before the call, `args` the
\* string arguments; cluster_id, job, bundle, hit and prior (the serial of the
\* bundle the same call returned the time before, 0 when none) are filled in
\* by the methods that have them.
Called(op, c, pre, args, run) ==
    [op |-> op, c |-> c, pre |-> pre, args |-> args,
     raised |-> run.raised, trace |-> run.trace, lookups |-> run.lookups,
     cluster_id |-> Null, job |-> NoJob, bundle |-> NoBundle, hit |-> FALSE,
     prior |-> 0]

NoCall == Called("none", "c1", Unmade, <<>>, Ran(Unmade, NoErr, <<>>, <<>>))

\* A variable of an object that the behaviour does not construct.
Unused == [made |-> FALSE]

Init ==
    /\ ctl = [c \in Ctrls |-> Unmade]
    /\ cache = <<>>
    /\ nconn = 0
    /\ served = [k \in CacheKeys |-> 0]
    /\ last = NoCall
    /\ standalone = Unused
    /\ dbaddress = Unused
    /\ pairs = Unused

\* ManagedCluster(id=..., name=..., settings=..., info=...)
Construct(c) ==
    /\ ~ctl[c].made
    /\ \E id \in IdArgs, name \in NameArgs, sid \in IdArgs, sname \in NameArgs,
          cred \in DefaultCredentials, info \in InfoArgs :
          LET self == init_fields(id, name, Settings(sid, sname, cred[1], cred[2]), info) IN
          IF init_rejects(self)
          THEN /\ last' = Called("init", c, ctl[c], <<id, name, sid, sname>>,
                                 Ran(ctl[c], ErrNoAddress, <<>>, <<>>))
               /\ UNCHANGED ctl
          ELSE /\ last' = Called("init", c, ctl[c], <<id, name, sid, sname>>,
                                 Ran(self, NoErr, <<>>, <<>>))
               /\ ctl' = [ctl EXCEPT ![c] = self]
    /\ UNCHANGED <<cache, nconn, served, standalone, dbaddress, pairs>>

\* c.probe()
Probe(c) ==
    /\ ctl[c].made
    /\ \E o \in Lookups :
          LET r == probe(ctl[c], o) IN
          /\ ctl' = [ctl EXCEPT ![c] = r.self]
          /\ last' = Called("probe", c, ctl[c], <<>>, r)
    /\ UNCHANGED <<cache, nconn, served, standalone, dbaddress, pairs>>

\* c.deploy()
Deploy(c) ==
    /\ ctl[c].made
    /\ \E d \in DeployAnswers :
          LET r == deploy(ctl[c], d) IN
          /\ ctl' = [ctl EXCEPT ![c] = r.self]
          /\ last' = Called("deploy", c, ctl[c], <<>>, r)
    /\ UNCHANGED <<cache, nconn, served, standalone, dbaddress, pairs>>

\* The collaborators' answers a call consumes: one that is never asked for is
\* not drawn.
AnyDeploy == "deployed"
AnyLookup == Failed(ErrNotFound)
AnyLoad == [raises |-> TRUE, job |-> NoJob]

acquire_deploys(self, o1) ==
    LET p1 == probe(self, o1) IN p1.raised = NoErr /\ acquire_needs_deploy(p1.self)

acquire_reprobes(self, o1, d) ==
    acquire_deploys(self, o1) /\ deploy(probe(self, o1).self, d).raised = NoErr

load_table_connects(self, o) ==
    LET p == probe(self, o) IN p.raised = NoErr /\ ~load_table_rejects(p.self)

\* c.acquire()
Acquire(c) ==
    /\ ctl[c].made
    /\ \E o1 \in Lookups :
       \E d \in IF acquire_deploys(ctl[c], o1) THEN DeployAnswers ELSE {AnyDeploy} :
       \E o2 \in IF acquire_reprobes(ctl[c], o1, d) THEN Lookups ELSE {AnyLookup} :
          LET r == acquire(ctl[c], o1, d, o2) IN
          /\ ctl' = [ctl EXCEPT ![c] = r.self]
          /\ last' = Called("acquire", c, ctl[c], <<>>, r)
    /\ UNCHANGED <<cache, nconn, served, standalone, dbaddress, pairs>>

\* c.start()
Start(c) ==
    /\ ctl[c].made
    /\ \E o1 \in Lookups :
       \E d \in IF acquire_deploys(ctl[c], o1) THEN DeployAnswers ELSE {AnyDeploy} :
       \E o2 \in IF acquire_reprobes(ctl[c], o1, d) THEN Lookups ELSE {AnyLookup} :
          LET r == start(ctl[c], o1, d, o2) IN
          /\ ctl' = [ctl EXCEPT ![c] = r.self]
          /\ last' = Called("start", c, ctl[c], <<>>, r)
    /\ UNCHANGED <<cache, nconn, served, standalone, dbaddress, pairs>>

\* c.load_table(source, target)
LoadTable(c) ==
    /\ ctl[c].made
    /\ \E o \in Lookups :
       \E cio \in IF load_table_connects(ctl[c], o) THEN CloudIoAnswers ELSE {"raises"} :
       \E lr \in IF load_table_connects(ctl[c], o) /\ cio = "connected"
                 THEN LoadAnswers ELSE {AnyLoad} :
          LET r == load_table(ctl[c], o, cio, lr) IN
          /\ ctl' = [ctl EXCEPT ![c] = r.run.self]
          /\ last' = [Called("load_table", c, ctl[c], <<>>, r.run)
                         EXCEPT !.cluster_id = r.cluster_id, !.job = r.job]
    /\ UNCHANGED <<cache, nconn, served, standalone, dbaddress, pairs>>

\* c.get_client_bundle(username, password)
GetClientBundle(c) ==
    /\ ctl[c].made
    /\ \E cr \in CredentialArgs, connects \in BOOLEAN :
          LET username == cr[1]
              password == cr[2]
              r == get_client_bundle(cache, nconn, c, ctl[c], username, password, connects)
              k == cache_key(c, username, password) IN
          /\ r.nconn <= MaxConn
          /\ cache' = r.cache
          /\ nconn' = r.nconn
          /\ served' = IF r.run.raised = NoErr
                       THEN [served EXCEPT ![k] = r.bundle.serial]
                       ELSE served
          /\ last' = [Called("get_client_bundle", c, ctl[c], <<username, password>>, r.run)
                         EXCEPT !.bundle = r.bundle, !.hit = r.hit, !.prior = served[k]]
    /\ UNCHANGED <<ctl, standalone, dbaddress, pairs>>

\* One controller and its life cycle.  The life-cycle methods of one
\* controller read and write that controller's fields only, and
\* get_client_bundle writes none of them: the bundle cache, the one state that
\* controllers share, is explored by SpecBundle below.
Main == "c1"

Next ==
    \/ Construct(Main)
    \/ Probe(Main)
    \/ Deploy(Main)
    \/ Acquire(Main)
    \/ Start(Main)
    \/ LoadTable(Main)

Spec == Init /\ [][Next]_vars

\* Two controllers, constructed by name with empty info, one with the default
\* settings and one with credentials in its settings, and the calls that reach
\* the bundle cache: get_client_bundle, and probe, which sets the URL that
\* get_client_bundle connects to.
InitBundle ==
    /\ ctl = [c \in Ctrls |->
                 IF c = Main
                 THEN init_fields(Null, "n0", Settings(Null, Null, Null, Null), EmptyCloud)
                 ELSE init_fields(Null, "n0", Settings(Null, Null, "admin", "s3"),
                                  EmptyCloud)]
    /\ cache = <<>>
    /\ nconn = 0
    /\ served = [k \in CacheKeys |-> 0]
    /\ last = NoCall
    /\ standalone = Unused
    /\ dbaddress = Unused
    /\ pairs = Unused

NextBundle ==
    \E c \in Ctrls :
        \/ Probe(c)
        \/ GetClientBundle(c)

SpecBundle == InitBundle /\ [][NextBundle]_vars

----------------------------------------------------------------------------
(* Properties of ManagedCluster.probe *)

\* Number of occurrences of x in the sequence seq.
Count(seq, x) == Cardinality({i \in 1..Len(seq) : seq[i] = x})

\* The last call was method `op`, and the control plane's answer to its first
\* cluster lookup was o.
FirstLookup(op, o) ==
    last.op = op /\ Len(last.lookups) >= 1 /\ last.lookups[1] = o

\* The receiver of the last call, as the call left it.
Receiver == ctl[last.c]

\* C1: a probe() whose lookup the control plane answers with "not found",
\* in whatever state the controller was, returns without raising and leaves
\* exists == false.
C1_ProbeNotFoundLeavesAbsent ==
    FirstLookup("probe", Failed(ErrNotFound)) =>
        last.raised = NoErr /\ Receiver.exists = FALSE

\* C2: a probe() whose lookup the control plane answers with the cluster's
\* metadata returns with exists == true, info equal to that response, and id
\* and name equal to the response's id and name, whatever they held before.
C2_ProbePresentAdoptsResponse ==
    \A r \in Responses :
        FirstLookup("probe", Found(r)) =>
            /\ last.raised = NoErr
            /\ Receiver.exists = TRUE
            /\ Receiver.info = r
            /\ Receiver.id = r.id
            /\ Receiver.name = r.name

\* C2 witness: a controller constructed with a name only, whose id was unset
\* and whose previous probe had failed, probes a present cluster and gets its
\* id resolved and its name replaced.
C2_Witness ==
    /\ \E r \in Responses : FirstLookup("probe", Found(r))
    /\ last.pre.id = Null
    /\ last.pre.name = "n0"
    /\ last.pre.exists = FALSE
    /\ Receiver.id = "i1"
    /\ Receiver.name = "n1"
    /\ Receiver.exists = TRUE

\* C3: probe() absorbs exactly the not-found failure: any other failure of
\* the lookup is raised to the caller unchanged, the not-found failure is not
\* raised at all.
C3_ProbeAbsorbsOnlyNotFound ==
    \A e \in ProbeErrors :
        FirstLookup("probe", Failed(e)) =>
            IF e = ErrNotFound THEN last.raised = NoErr ELSE last.raised = e

\* C3 witness: a probe whose lookup failed with a control-plane error other
\* than not-found, which the caller received.
C3_Witness ==
    /\ FirstLookup("probe", Failed(ErrApi))
    /\ last.raised = ErrApi
    /\ last.raised # ErrNotFound

----------------------------------------------------------------------------
(* Properties of ManagedCluster.acquire, deploy and construction *)

\* The log events of a trace are the entries that start with "log."; what is
\* left are the calls to collaborators and the settle wait.
LogEvents ==
    {"log.cluster_information", "log.created_project", "log.deploying", "log.deployed",
     "log.starting", "log.exception", "log.job_information", "log.guidance_success",
     "log.guidance_error", "log.connecting"}

IsCall(e) == e \notin LogEvents

Calls(trace) == SelectSeq(trace, IsCall)

\* C4: an acquire() whose probe finds the cluster present makes no deploy
\* call (no create_project, no deploy_cluster) and no settle wait: its only
\* call is the one lookup of its probe, it returns, and exists == true.  This
\* covers a second acquire() after a successful one.
C4_AcquirePresentDoesNotDeploy ==
    \A r \in Responses :
        FirstLookup("acquire", Found(r)) =>
            /\ last.raised = NoErr
            /\ Calls(last.trace) = <<"from_id_or_name">>
            /\ Count(last.trace, "create_project") = 0
            /\ Count(last.trace, "deploy_cluster") = 0
            /\ Count(last.trace, "sleep") = 0
            /\ Len(last.lookups) = 1
            /\ Receiver.exists = TRUE

\* C4 witness: an acquire() on a controller that an earlier successful call
\* left with exists == true and the cluster's metadata, the cluster being
\* reported present again.
C4_Witness ==
    /\ \E r \in Responses : FirstLookup("acquire", Found(r))
    /\ last.pre.exists = TRUE
    /\ last.pre.id = "i1"
    /\ Calls(last.trace) = <<"from_id_or_name">>
    /\ Receiver.exists = TRUE

\* C5: an acquire() on a controller with a name, whose first probe is
\* answered "not found", deploys and probes again; it raises the deployment
\* failure naming the cluster when the second probe is answered "not found"
\* too, and returns with exists == true when the second probe finds the
\* cluster.  (A failing deploy request and a failing second lookup raise
\* their own error.)
C5_AcquireAbsentDeploysAndReprobes ==
    (FirstLookup("acquire", Failed(ErrNotFound)) /\ last.pre.name # Null) =>
        \/ last.raised \in {ErrProject, ErrDeploy}
        \/ /\ Len(last.lookups) = 2
           /\ last.lookups[2] = Failed(ErrNotFound)
           /\ last.raised = ErrDeploymentFailed(last.pre.name)
        \/ /\ Len(last.lookups) = 2
           /\ last.lookups[2].ok
           /\ last.raised = NoErr
           /\ Receiver.exists = TRUE
        \/ /\ Len(last.lookups) = 2
           /\ ~last.lookups[2].ok
           /\ last.lookups[2] # Failed(ErrNotFound)
           /\ last.raised = last.lookups[2].err

\* C6: constructing a controller with id and name omitted, as arguments and
\* in the settings, raises the ValueError and yields no controller;
\* constructing it with an id or a name, as argument or in the settings,
\* succeeds and leaves exists == false.
C6_ConstructRequiresIdOrName ==
    last.op = "init" =>
        /\ (\A i \in 1..4 : last.args[i] = Null) =>
               (last.raised = ErrNoAddress /\ ~Receiver.made)
        /\ (\E i \in 1..4 : Truthy(last.args[i])) =>
               (last.raised = NoErr /\ Receiver.made /\ Receiver.exists = FALSE)

\* C6 witness: a construction without any id or name, which raised.
C6_Witness ==
    /\ last.op = "init"
    /\ last.args = <<Null, Null, Null, Null>>
    /\ last.raised.type = "ValueError"
    /\ ~Receiver.made

----------------------------------------------------------------------------
(* Properties of ManagedCluster.load_table *)

\* The initial probe of the last load_table call returned: its lookup found
\* the cluster, or failed with not-found.
LoadTableProbed ==
    /\ last.op = "load_table"
    /\ Len(last.lookups) = 1
    /\ (last.lookups[1].ok \/ last.lookups[1] = Failed(ErrNotFound))

\* C10: load_table() needs a resolved id.  When the id is still unset after
\* its initial probe, it raises the ValueError and the I/O collaborator is
\* neither constructed nor called; when the probe takes the id from the
\* control plane's response, the collaborator is constructed with that id.
C10_LoadTableRequiresId ==
    LoadTableProbed =>
        /\ Receiver.id = Null =>
               /\ last.raised = ErrNoId
               /\ Count(last.trace, "CloudIo") = 0
               /\ Count(last.trace, "load_resource") = 0
               /\ last.cluster_id = Null
        /\ last.lookups[1].ok =>
               /\ Count(last.trace, "CloudIo") = 1
               /\ last.cluster_id = last.lookups[1].cloud.id

\* C10 witness: load_table() on a name-only controller whose cluster is
\* reported not found: the id stayed unset and the ValueError was raised.
C10_Witness ==
    /\ FirstLookup("load_table", Failed(ErrNotFound))
    /\ last.pre.id = Null
    /\ last.pre.name = "n0"
    /\ Receiver.id = Null
    /\ last.raised = ErrNoId

----------------------------------------------------------------------------
(* Properties of ManagedCluster.get_client_bundle *)

\* The cache key of the last call, a get_client_bundle call.
LastKey == cache_key(last.c, last.args[1], last.args[2])

\* C8: get_client_bundle() on a controller that knows no cluster URL (never
\* probed, or probed with "not found" only) raises the configuration error
\* (ValueError), opens no database connection, returns no bundle and leaves
\* nothing in the cache for that call.
C8_BundleWithoutUrlIsConfigurationError ==
    (last.op = "get_client_bundle" /\ last.pre.info.url = NoUrl) =>
        /\ last.raised.type = "ValueError"
        /\ Count(last.trace, "DatabaseAdapter") = 0
        /\ last.bundle = NoBundle
        /\ cache_find(cache, LastKey) = 0

\* C9: a get_client_bundle() call that returns, on a controller and with a
\* credential pair for which an earlier call returned a bundle, returns that
\* same bundle from the cache without opening a connection, whatever calls
\* were made in between; and the bundle a call returns was built for that
\* controller and that credential pair.
C9_BundleCachedPerControllerAndCredentials ==
    (last.op = "get_client_bundle" /\ last.raised = NoErr) =>
        /\ last.prior # 0 =>
               /\ last.bundle.serial = last.prior
               /\ last.hit
               /\ Count(last.trace, "DatabaseAdapter") = 0
        /\ last.bundle.key = LastKey

----------------------------------------------------------------------------
(* Properties of the data loading of ManagedCluster.load_table *)

\* The last call was a load_table call that got past the check of the id:
\* the I/O collaborator was constructed, or its construction was attempted.
LoadTableConnected == last.op = "load_table" /\ Count(last.trace, "CloudIo") = 1

\* The last event of a trace, "" for the empty trace.
LastEvent(trace) == IF Len(trace) = 0 THEN "" ELSE trace[Len(trace)]

\* C11: a load_table() call that gets past the check of the id ends in one of
\* three ways: OperationFailed wrapping the collaborator's connection-level
\* error; OperationFailed carrying the message of a job whose success flag is
\* false; or the successful job returned.  No other exception escapes and no
\* failed job is returned, also when the cluster is reported not found and the
\* id was given by the caller.
C11_LoadTableThreeOutcomes ==
    LoadTableConnected =>
        \/ /\ last.raised.type = "OperationFailed"
           /\ last.raised.cause \in {<<ErrCloudIo>>, <<ErrLoadResource>>}
           /\ last.job = NoJob
        \/ /\ last.raised = Err("OperationFailed", <<"Data loading failed", JobFailed.message>>)
           /\ last.job = NoJob
        \/ /\ last.raised = NoErr
           /\ last.job = JobDone

\* C12, as the spec states it: every load_table() call that fails with
\* OperationFailed has logged the guidance message (admin console URL and
\* destination table).
C12_EveryFailureLogsGuidance ==
    (last.op = "load_table" /\ last.raised.type = "OperationFailed") =>
        Count(last.trace, "log.guidance_error") = 1

\* C12, amended: every load_table() call that fails with OperationFailed has
\* logged just before the exception propagates; for a job whose success flag
\* is false the log entry is the guidance message, for a connection-level
\* error of the collaborator it is the exception message alone, with no
\* guidance.
C12_FailureLogsBeforeRaising ==
    (last.op = "load_table" /\ last.raised.type = "OperationFailed") =>
        IF last.raised.cause = <<>>
        THEN /\ LastEvent(last.trace) = "log.guidance_error"
             /\ Count(last.trace, "log.guidance_error") = 1
             /\ last.pre.info.url # NoUrl \/ last.lookups[1].ok
        ELSE /\ LastEvent(last.trace) = "log.exception"
             /\ Count(last.trace, "log.guidance_error") = 0

\* C12 witness: a load_table() whose job reported failure, and which logged
\* the guidance message last, after the call to load_resource.
C12_Witness ==
    /\ last.op = "load_table"
    /\ last.raised = Err("OperationFailed", <<"Data loading failed", JobFailed.message>>)
    /\ Calls(last.trace) = <<"from_id_or_name", "CloudIo", "load_resource">>
    /\ LastEvent(last.trace) = "log.guidance_error"

\* C19: one acquire() makes its calls in the order lookup, create_project,
\* deploy_cluster, settle wait, lookup, stopping at any point of it: at most
\* two lookups, one create_project and one deploy_cluster, nothing after the
\* second lookup, and a deployment only after the first probe of this call
\* left exists == false.
C19_AcquireCallOrder ==
    last.op = "acquire" =>
        /\ Calls(last.trace) \in
               { <<"from_id_or_name">>,
                 <<"from_id_or_name", "create_project">>,
                 <<"from_id_or_name", "create_project", "deploy_cluster">>,
                 <<"from_id_or_name", "create_project", "deploy_cluster", "sleep",
                   "from_id_or_name">> }
        /\ Len(last.lookups) = Count(last.trace, "from_id_or_name")
        /\ Count(last.trace, "create_project") = 1 =>
               /\ probe(last.pre, last.lookups[1]).raised = NoErr
               /\ probe(last.pre, last.lookups[1]).self.exists = FALSE
        /\ (Len(last.lookups) = 2 /\ last.raised = NoErr) => Receiver.exists

\* C19 witness: an acquire() that went through the whole sequence and whose
\* second probe still did not find the cluster.
C19_Witness ==
    /\ last.op = "acquire"
    /\ Len(last.lookups) = 2
    /\ last.lookups[2] = Failed(ErrNotFound)
    /\ last.raised = ErrDeploymentFailed(last.pre.name)
    /\ Count(last.trace, "sleep") = 1


----------------------------------------------------------------------------
(* Strings *)

\* A URL in string form is the sequence of its pieces, for example
\* <<"influxdb", "2", "://", "h1", "/", "db", "?", "ssl", "=", "true">>.

\* str.startswith
startswith(s, prefix) ==
    Len(s) >= Len(prefix) /\ SubSeq(s, 1, Len(prefix)) = prefix

\* str.replace: every occurrence, from the left.
RECURSIVE replace(_, _, _)
replace(s, old, new) ==
    IF s = <<>> THEN <<>>
    ELSE IF startswith(s, old)
    THEN new \o replace(SubSeq(s, Len(old) + 1, Len(s)), old, new)
    ELSE <<Head(s)>> \o replace(Tail(s), old, new)

\* str(uri) of a DatabaseAddress URI.
to_text(uri) ==
    <<uri.scheme, "://">>
    \o (IF uri.username = Null THEN <<>>
        ELSE IF uri.password = Null THEN <<uri.username, "@">>
        ELSE <<uri.username, ":", uri.password, "@">>)
    \o <<uri.host>>
    \o (IF uri.ssl = Null THEN <<>> ELSE <<"?", "ssl", "=", uri.ssl>>)

\* DatabaseAddress.dburi
dburi(self) == to_text(self)

----------------------------------------------------------------------------
(* StandaloneCluster.load_table *)

\* The scheme of a source URL, in pieces: "influxdb2" is "influxdb" and "2".
SourceSchemes ==
    { <<"influxdb", "2">>, <<"influxdb">>, <<"mongodb">>, <<"mongodb", "+srv">>,
      <<"ftp">>, <<"http">> }

SourceHosts == {"h1", "h2"}

\* Values of the `ssl` query parameter of a source URL; Null: no parameter.
SourceSsl == {Null, "true", "false"}

\* InputOutputResource.url
SourceUrl(scheme, host, ssl) ==
    scheme \o <<"://", host, "/", "db">>
    \o (IF ssl = Null THEN <<>> ELSE <<"?", "ssl", "=", ssl>>)

SourceUrls ==
    { SourceUrl(sc, h, ssl) : sc \in SourceSchemes, h \in SourceHosts, ssl \in SourceSsl }

\* URL(source_url).query.get(key): the first value of the parameter, or None.
query_get(s, key) ==
    LET at == { i \in 1..(Len(s) - 3) :
                   s[i] \in {"?", "&"} /\ s[i + 1] = key /\ s[i + 2] = "=" } IN
    IF at = {} THEN Null
    ELSE s[(CHOOSE i \in at : \A j \in at : i <= j) + 3]

\* asbool, on None and on the strings "true" and "false".
asbool(v) == v = "true"

ErrLoadingFailed == Err("OperationFailed", <<"Data loading failed">>)
ErrNotImplemented ==
    Err("NotImplementedError", <<"Importing resource not implemented yet">>)

\* No collaborator was called.
NoCopy == [collaborator |-> Null, source_url |-> <<>>, target_url |-> <<>>]

\* The http scheme that replaces the source's.
standalone_http_scheme(source_url) ==
    IF asbool(query_get(source_url, "ssl")) THEN <<"https", "://">> ELSE <<"http", "://">>

\* The URL handed to influxdb_copy.
standalone_rewrite(source_url) ==
    replace(source_url, <<"influxdb", "2", "://">>, standalone_http_scheme(source_url))

\* StandaloneCluster.load_table(source, target); `copied` is what the copy
\* collaborator returns.
standalone_load_table(self, source_url, copied) ==
    LET target_url == dburi(self.address)
        failed == IF copied THEN [raised |-> NoErr, trace |-> <<>>]
                  ELSE [raised |-> ErrLoadingFailed, trace |-> <<"log.error">>] IN
    IF startswith(source_url, <<"influxdb">>)
    THEN [copy |-> [collaborator |-> "influxdb_copy",
                    source_url |-> standalone_rewrite(source_url),
                    target_url |-> target_url],
          raised |-> failed.raised, trace |-> failed.trace]
    ELSE IF startswith(source_url, <<"mongodb">>)
    THEN [copy |-> [collaborator |-> "mongodb_copy",
                    source_url |-> source_url,
                    target_url |-> target_url],
          raised |-> failed.raised, trace |-> failed.trace]
    ELSE [copy |-> NoCopy, raised |-> ErrNotImplemented, trace |-> <<>>]

\* The addresses of the standalone clusters.
StandaloneAddresses ==
    { [scheme |-> "crate", host |-> "h0", ssl |-> ssl, username |-> "crate",
       password |-> Null] : ssl \in {Null, "true"} }

NoLoad == [source |-> <<>>, copy |-> NoCopy, raised |-> NoErr, trace |-> <<>>]

\* The state of the objects that a behaviour of the value objects leaves alone.
NoControllers ==
    /\ ctl = [c \in Ctrls |-> Unmade]
    /\ cache = <<>>
    /\ nconn = 0
    /\ served = [k \in CacheKeys |-> 0]
    /\ last = NoCall

\* StandaloneCluster(address=...)
InitStandalone ==
    /\ NoControllers
    /\ \E a \in StandaloneAddresses :
          standalone = [made |-> TRUE, address |-> a, call |-> NoLoad]
    /\ dbaddress = Unused
    /\ pairs = Unused

\* The copy collaborator's answer is drawn only when one is called.
standalone_dispatches(source_url) ==
    startswith(source_url, <<"influxdb">>) \/ startswith(source_url, <<"mongodb">>)

\* cluster.load_table(source, target)
StandaloneLoadTable ==
    /\ standalone.made
    /\ \E source_url \in SourceUrls :
       \E copied \in IF standalone_dispatches(source_url) THEN BOOLEAN ELSE {FALSE} :
          LET r == standalone_load_table(standalone, source_url, copied) IN
          standalone' = [standalone EXCEPT
                            !.call = [source |-> source_url, copy |-> r.copy,
                                      raised |-> r.raised, trace |-> r.trace]]
    /\ UNCHANGED <<ctl, cache, nconn, served, last, dbaddress, pairs>>

NextStandalone == StandaloneLoadTable

SpecStandalone == InitStandalone /\ [][NextStandalone]_vars

\* The scheme of a URL string: the pieces before "://".
RECURSIVE scheme_of(_)
scheme_of(s) ==
    IF s = <<>> \/ Head(s) = "://" THEN <<>> ELSE <<Head(s)>> \o scheme_of(Tail(s))

\* C13: every source URL that StandaloneCluster.load_table hands to the
\* InfluxDB copy collaborator has the scheme https when the source's ssl
\* flag is true and http when the flag is false or missing; the collaborator
\* never receives a URL that still has an influxdb scheme.
C13_InfluxSourceRewrittenToHttp ==
    standalone.call.copy.collaborator = "influxdb_copy" =>
        LET handed == standalone.call.copy.source_url
            ssl == query_get(standalone.call.source, "ssl") IN
        /\ scheme_of(handed) = IF ssl = "true" THEN <<"https">> ELSE <<"http">>
        /\ ~startswith(handed, <<"influxdb">>)


----------------------------------------------------------------------------
(* DatabaseAddress and its views *)

\* Values of the `ssl` query parameter of a URL: none, "true", "false", and a
\* blank value (falsy).
SslValues == {Null, "true", "false", Empty}

\* Management URLs, http or https, with or without a query.
HttpUrls == [scheme : {"http", "https"}, host : {"h1", "h2"}, ssl : SslValues]

\* Connection URIs in the database's own scheme.
DbUris ==
    { [scheme |-> "crate", host |-> h, ssl |-> ssl,
       username |-> cr[1], password |-> cr[2]] :
         h \in {"h1", "h2"}, ssl \in SslValues,
         cr \in { <<Null, Null>>, <<"crate", Null>>, <<"crate", "s3">> } }

\* DatabaseAddress.from_string
from_string(uri) == uri

\* The outcome of evaluating a view: the address afterwards and the string
\* returned.
Viewed(self, result) == [self |-> self, result |-> result]

\* DatabaseAddress.httpuri: works on a deep copy of the stored URI.
httpuri(self) ==
    LET uri == self
        secure == uri.ssl # Null /\ Truthy(uri.ssl)
        out == [uri EXCEPT !.scheme = IF secure THEN "https" ELSE "http",
                           !.ssl = Null] IN
    Viewed(self, to_text(out))

\* DatabaseAddress.safe: works on a deep copy of the stored URI.
safe(self) ==
    LET uri == self IN
    Viewed(self, to_text([uri EXCEPT !.password = "REDACTED"]))

NoView == [name |-> Null, before |-> <<>>, result |-> <<>>]

\* No DatabaseAddress constructed yet.
InitAddress ==
    /\ NoControllers
    /\ standalone = Unused
    /\ dbaddress = [made |-> FALSE, uri |-> NoAddress, origin |-> NoUrl, view |-> NoView]
    /\ pairs = Unused

\* DatabaseAddress.from_string(url)
FromString ==
    /\ \E uri \in DbUris :
          dbaddress' = [made |-> TRUE, uri |-> from_string(uri), origin |-> NoUrl,
                        view |-> NoView]
    /\ UNCHANGED <<ctl, cache, nconn, served, last, standalone, pairs>>

\* DatabaseAddress.from_httpuri(url)
FromHttpuri ==
    /\ \E url \in HttpUrls :
          dbaddress' = [made |-> TRUE, uri |-> from_httpuri(url), origin |-> url,
                        view |-> NoView]
    /\ UNCHANGED <<ctl, cache, nconn, served, last, standalone, pairs>>

\* Evaluation of a view of the address.
View(name, r) ==
    dbaddress' = [dbaddress EXCEPT
                     !.uri = r.self,
                     !.view = [name |-> name, before |-> dburi(dbaddress.uri),
                               result |-> r.result]]

\* address.dburi
Dburi ==
    /\ dbaddress.made
    /\ View("dburi", Viewed(dbaddress.uri, dburi(dbaddress.uri)))
    /\ UNCHANGED <<ctl, cache, nconn, served, last, standalone, pairs>>

\* address.httpuri
Httpuri ==
    /\ dbaddress.made
    /\ View("httpuri", httpuri(dbaddress.uri))
    /\ UNCHANGED <<ctl, cache, nconn, served, last, standalone, pairs>>

\* address.safe
Safe ==
    /\ dbaddress.made
    /\ View("safe", safe(dbaddress.uri))
    /\ UNCHANGED <<ctl, cache, nconn, served, last, standalone, pairs>>

NextAddress ==
    \/ FromString
    \/ FromHttpuri
    \/ Dburi
    \/ Httpuri
    \/ Safe

SpecAddress == InitAddress /\ [][NextAddress]_vars

\* C14: for every management URL u with scheme http or https, with or without
\* a query, from_httpuri(u) has the scheme crate, carries ssl=true exactly when
\* u is https, and its httpuri has the scheme of u.
C14_HttpuriRoundTripsScheme ==
    (dbaddress.made /\ dbaddress.origin # NoUrl) =>
        /\ dbaddress.uri.scheme = "crate"
        /\ (dbaddress.uri.ssl = "true") <=> (dbaddress.origin.scheme = "https")
        /\ dbaddress.view.name = "httpuri" =>
              scheme_of(dbaddress.view.result) = <<dbaddress.origin.scheme>>

\* The `ssl` parameter of the stored URI that a view was evaluated on.
ViewedSsl == query_get(dbaddress.view.before, "ssl")

\* C15: httpuri has the scheme https exactly when the stored URI has ssl=true,
\* http when it has no ssl parameter or ssl=false; the result has no ssl
\* parameter, and the stored URI (dburi) is what it was before.
C15_HttpuriFoldsSslIntoScheme ==
    dbaddress.view.name = "httpuri" =>
        /\ scheme_of(dbaddress.view.result) =
              IF ViewedSsl = "true" THEN <<"https">> ELSE <<"http">>
        /\ query_get(dbaddress.view.result, "ssl") = Null
        /\ dburi(dbaddress.uri) = dbaddress.view.before


----------------------------------------------------------------------------
(* boltons.urlutils.URL, as far as AddressPair uses it *)

\* A URL object is [scheme, host, path_parts, query_params]: path_parts is the
\* path split at "/" ("/db" is <<"", "db">>, the empty path is <<"">>), and
\* query_params is a reference to a dictionary on the heap.

\* A query parameter dictionary over the keys `ssl` and `token`; Null: no key.
EmptyQuery == [ssl |-> Null, token |-> Null]

\* url.path == ""
path_is_empty(parts) == parts = <<"">>

\* Path(url.path).is_absolute()
path_is_absolute(parts) == Len(parts) >= 2 /\ parts[1] = ""

\* url.path[-1] == "/", for a path that is not empty.
path_ends_in_slash(parts) == Len(parts) >= 2 /\ parts[Len(parts)] = Empty

\* url.path += "/"
path_append_slash(parts) == parts \o <<Empty>>

\* One round of the loop of resolve_path_parts.
resolve_step(ret, part) ==
    IF part = "." THEN ret
    ELSE IF part = ".."
    THEN IF ret # <<>> /\ (Len(ret) > 1 \/ ret[1] # Empty)
         THEN SubSeq(ret, 1, Len(ret) - 1)
         ELSE ret
    ELSE Append(ret, part)

RECURSIVE resolve_from(_, _)
resolve_from(ret, parts) ==
    IF parts = <<>> THEN ret
    ELSE resolve_from(resolve_step(ret, Head(parts)), Tail(parts))

\* resolve_path_parts, called by URL.normalize
resolve_path_parts(parts) ==
    LET ret == resolve_from(<<>>, parts) IN
    IF parts # <<>> /\ parts[Len(parts)] \in {".", ".."} THEN Append(ret, Empty) ELSE ret

\* URL.navigate(dest) for a relative reference with a path and nothing else:
\* the last part of the path is replaced by the reference, the query is the
\* reference's (a new, empty dictionary).
url_navigate(self, dest_parts, fresh) ==
    [self EXCEPT
        !.path_parts = resolve_path_parts(
                           SubSeq(self.path_parts, 1, Len(self.path_parts) - 1)
                           \o dest_parts),
        !.query_params = fresh]

\* The path of str(url): between an authority and a path that does not start
\* with "/", a "/" is written.
text_path(url) ==
    IF url.host # Empty /\ ~path_is_empty(url.path_parts) /\ url.path_parts[1] # Empty
    THEN <<Empty>> \o url.path_parts
    ELSE url.path_parts

\* URL(str(url)): a new object, parsed from the string.
reparse(url) == [url EXCEPT !.path_parts = text_path(url)]

----------------------------------------------------------------------------
(* AddressPair.navigate *)

SERVER_SCHEMES == {"http", "https", "mongodb", "mongodb+srv"}

ErrIndex == Err("IndexError", <<"string index out of range">>)

\* The condition under which the source path gets a trailing "/".
\* Faulty variant: never.
normalizes_source_never(source_url) == FALSE

normalizes_source(source_url) ==
    /\ source_url.scheme \in SERVER_SCHEMES
    /\ path_is_absolute(source_url.path_parts)
    /\ ~path_ends_in_slash(source_url.path_parts)

\* source_url.query_params = source_url_query_parameters
\* Faulty variant: the resolved URL keeps its own query.
reapply_skipped(resolved, snapshot) == resolved

reapply(resolved, snapshot) == snapshot

\* f"./{source_path}", split at "/".
relative(path) == <<".">> \o path

Navigated(heap, pair, raised) == [heap |-> heap, pair |-> pair, raised |-> raised]

\* AddressPair.navigate(source_path, target_path); the paths are sequences
\* of segments ("a/b" is <<"a", "b">>).
navigate(heap, self, source_path, target_path) ==
    LET source_url_query_parameters == self.source_url.query_params
        target_url_query_parameters == self.target_url.query_params
        source_url == reparse(self.source_url)
        target_url == reparse(self.target_url)
        source_dir == IF normalizes_source(source_url)
                      THEN [source_url EXCEPT
                               !.path_parts = path_append_slash(source_url.path_parts)]
                      ELSE source_url
    IN
    IF path_is_empty(target_url.path_parts)
    THEN Navigated(heap, self, ErrIndex)
    ELSE LET target_dir == IF ~path_ends_in_slash(target_url.path_parts)
                           THEN [target_url EXCEPT
                                    !.path_parts = path_append_slash(target_url.path_parts)]
                           ELSE target_url
             heap2 == heap \o <<EmptyQuery, EmptyQuery>>
             source_new == url_navigate(source_dir, relative(source_path), Len(heap) + 1)
             target_new == url_navigate(target_dir, relative(target_path), Len(heap) + 2)
         IN
         Navigated(heap2,
                   [source_url |-> [source_new EXCEPT !.query_params =
                                       reapply(source_new.query_params,
                                               source_url_query_parameters)],
                    target_url |-> [target_new EXCEPT !.query_params =
                                       reapply(target_new.query_params,
                                               target_url_query_parameters)]],
                   NoErr)


\* Bounds on the navigate calls that return and on the writes to a query
\* dictionary in one behaviour.
MaxDepth == 2
MaxWrites == 1

\* Source URLs of a base pair: every server scheme and two others, with an
\* empty path, "/db" and "/db/"; a file URL has no host and an absolute path.
SourcePaths(scheme) ==
    IF scheme = "file" THEN { <<Empty, "db">>, <<Empty, "db", Empty>> }
    ELSE { <<Empty>>, <<Empty, "db">>, <<Empty, "db", Empty>> }

SourceBases ==
    UNION { { [scheme |-> sc, host |-> IF sc = "file" THEN Empty ELSE "h1",
               path_parts |-> pp, query_params |-> 1] : pp \in SourcePaths(sc) } :
            sc \in SERVER_SCHEMES \cup {"file", "influxdb2"} }

\* Target URLs of a base pair: crate://h2, crate://h2/schema, crate://h2/schema/
TargetBases ==
    { [scheme |-> "crate", host |-> "h2", path_parts |-> pp, query_params |-> 2] :
         pp \in { <<Empty>>, <<Empty, "schema">>, <<Empty, "schema", Empty>> } }

SourceQuery == [ssl |-> "true", token |-> Null]
TargetQueries == { EmptyQuery, [ssl |-> Null, token |-> "t1"] }

\* Plain path segments.
SourceSegments == {"col1", "col2"}
TargetSegments == {"tbl1", "tbl2"}

\* What a reader of a URL sees: its string form, with the query dictionary
\* looked up on the heap.
UrlSeen(heap, url) ==
    [scheme |-> url.scheme, host |-> url.host, path |-> text_path(url),
     query |-> heap[url.query_params]]

Seen(heap, pair) ==
    [source |-> UrlSeen(heap, pair.source_url), target |-> UrlSeen(heap, pair.target_url)]

\* AddressPair(source_url=URL(...), target_url=URL(...)): the base pair.  No
\* navigate call yet: `input` and `result` are the base pair.
InitNavigate ==
    /\ NoControllers
    /\ standalone = Unused
    /\ dbaddress = Unused
    /\ \E s \in SourceBases, t \in TargetBases, tq \in TargetQueries :
          LET base == [source_url |-> s, target_url |-> t]
              heap == <<SourceQuery, tq>> IN
          pairs = [made |-> TRUE, heap |-> heap, base |-> base,
                   base_seen |-> Seen(heap, base),
                   input |-> base, result |-> base,
                   input_seen |-> Seen(heap, base), result_seen |-> Seen(heap, base),
                   trail |-> <<>>, writes |-> 0,
                   call |-> [op |-> "none", args |-> <<>>, raised |-> NoErr]]

\* result = input.navigate(source_path, target_path), on the latest pair.
Navigate ==
    /\ pairs.made
    /\ Len(pairs.trail) < MaxDepth
    /\ \E sp \in SourceSegments, tp \in TargetSegments :
          LET self == pairs.result
              r == navigate(pairs.heap, self, <<sp>>, <<tp>>) IN
          pairs' = [pairs EXCEPT
                       !.heap = r.heap,
                       !.input = self,
                       !.result = r.pair,
                       !.input_seen = Seen(pairs.heap, self),
                       !.result_seen = Seen(r.heap, r.pair),
                       !.trail = IF r.raised = NoErr THEN Append(@, <<sp, tp>>) ELSE @,
                       !.call = [op |-> "navigate", args |-> <<sp, tp>>,
                                 raised |-> r.raised]]
    /\ UNCHANGED <<ctl, cache, nconn, served, last, standalone, dbaddress>>

\* url.query_params["token"] = "t2"
set_token(heap, url) == [heap EXCEPT ![url.query_params].token = "t2"]

Sides == {"source_url", "target_url"}

\* A write to the query of a URL of the pair that navigate returned.
SetResultParam ==
    /\ pairs.made
    /\ pairs.trail # <<>>
    /\ pairs.writes < MaxWrites
    /\ \E side \in Sides :
          LET heap == set_token(pairs.heap, pairs.result[side]) IN
          pairs' = [pairs EXCEPT
                       !.heap = heap,
                       !.result_seen = Seen(heap, pairs.result),
                       !.writes = @ + 1,
                       !.call = [op |-> "set_result", args |-> <<side>>, raised |-> NoErr]]
    /\ UNCHANGED <<ctl, cache, nconn, served, last, standalone, dbaddress>>

\* A write to the query of a URL of the pair that navigate was called on.
SetInputParam ==
    /\ pairs.made
    /\ pairs.trail # <<>>
    /\ pairs.writes < MaxWrites
    /\ \E side \in Sides :
          LET heap == set_token(pairs.heap, pairs.input[side]) IN
          pairs' = [pairs EXCEPT
                       !.heap = heap,
                       !.input_seen = Seen(heap, pairs.input),
                       !.writes = @ + 1,
                       !.call = [op |-> "set_input", args |-> <<side>>, raised |-> NoErr]]
    /\ UNCHANGED <<ctl, cache, nconn, served, last, standalone, dbaddress>>

NextNavigate ==
    \/ Navigate
    \/ SetResultParam
    \/ SetInputParam

SpecNavigate == InitNavigate /\ [][NextNavigate]_vars


----------------------------------------------------------------------------
(* Properties of AddressPair.navigate *)

\* The segments navigated so far on one side (1: source, 2: target), as one
\* path: after navigate("a", "c") and navigate("b", "d"), "a/b" and "c/d".
RECURSIVE Joined(_, _)
Joined(trail, i) ==
    IF trail = <<>> THEN <<>> ELSE <<Head(trail)[i]>> \o Joined(Tail(trail), i)

\* base.navigate("a/b", "c/d"): one call with the joined paths.
Direct ==
    navigate(pairs.heap, pairs.base, Joined(pairs.trail, 1), Joined(pairs.trail, 2))

\* Successive navigate calls have returned and no query dictionary was written.
Navigated2 == pairs.made /\ Len(pairs.trail) >= 2 /\ pairs.writes = 0

\* A navigate call that raises, raises for the joined paths as well.
RaisesAlike ==
    (pairs.made /\ pairs.call.op = "navigate" /\ pairs.call.raised # NoErr) =>
        \A b \in SourceSegments, d \in TargetSegments :
            navigate(pairs.heap, pairs.input, <<pairs.call.args[1], b>>,
                     <<pairs.call.args[2], d>>).raised = pairs.call.raised

\* C16: navigate is associative for every source scheme, server-like or not:
\* base.navigate(a, c).navigate(b, d) has the source URL and the target URL of
\* base.navigate(a/b, c/d), whether or not the base paths end in a separator.
C16_NavigateAssociative ==
    /\ RaisesAlike
    /\ Navigated2 =>
          /\ Direct.raised = NoErr
          /\ Seen(Direct.heap, Direct.pair) = Seen(pairs.heap, pairs.result)

\* C16, amended: the target URLs are the same for every base pair, the source
\* URLs are the same when the source scheme is a server scheme; a first call
\* that raises, raises for the joined paths as well.
C16_NavigateAssociativeForServers ==
    /\ RaisesAlike
    /\ Navigated2 =>
          /\ Direct.raised = NoErr
          /\ Seen(Direct.heap, Direct.pair).target = Seen(pairs.heap, pairs.result).target
          /\ pairs.base.source_url.scheme \in SERVER_SCHEMES =>
                Seen(Direct.heap, Direct.pair).source
                    = Seen(pairs.heap, pairs.result).source

C16_Witness ==
    /\ Navigated2
    /\ pairs.base.source_url.scheme = "mongodb"
    /\ pairs.base.source_url.path_parts = <<Empty, "db">>
    /\ pairs.base.target_url.path_parts = <<Empty, "schema">>
    /\ pairs.trail = << <<"col1", "tbl1">>, <<"col2", "tbl2">> >>
    /\ pairs.result_seen.source.path = <<Empty, "db", "col1", "col2">>
    /\ pairs.result_seen.target.path = <<Empty, "schema", "tbl1", "tbl2">>

\* C17: after any number of navigate calls from a base pair, the source URL
\* has exactly the query parameters of the base source and the target URL
\* exactly those of the base target; none of one side is on the other side.
C17_QueryParametersKept ==
    (pairs.made /\ pairs.trail # <<>> /\ pairs.writes = 0) =>
        LET now == Seen(pairs.heap, pairs.result) IN
        /\ now.source.query = pairs.base_seen.source.query
        /\ now.target.query = pairs.base_seen.target.query
        /\ now.source.query.token = Null
        /\ now.target.query.ssl = Null

C17_Witness ==
    /\ pairs.made
    /\ Len(pairs.trail) = MaxDepth
    /\ pairs.writes = 0
    /\ Seen(pairs.heap, pairs.result).source.query = SourceQuery
    /\ Seen(pairs.heap, pairs.result).target.query.token = "t1"

\* C18: navigate leaves its input pair as it was, and the pair it returns
\* shares no mutable state with the input: a write to the query parameters
\* of a URL of one pair is not seen in the URLs of the other.
C18_NavigateSharesNothing ==
    (pairs.made /\ pairs.trail # <<>>) =>
        /\ Seen(pairs.heap, pairs.input) = pairs.input_seen
        /\ Seen(pairs.heap, pairs.result) = pairs.result_seen

\* The path that descends from `parts` into the segment `seg`.
descend(parts, seg) ==
    (IF path_ends_in_slash(parts) THEN SubSeq(parts, 1, Len(parts) - 1) ELSE parts)
    \o <<seg>>

\* C20: for every target URL, one with an empty path included, navigate
\* completes without error and the target path is the base target path, a
\* separator, and target_path; the same on the source side for a server
\* scheme with an absolute path.
C20_TargetIsDirectory ==
    (pairs.made /\ pairs.call.op = "navigate") =>
        /\ pairs.call.raised = NoErr
        /\ pairs.result_seen.target.path
              = descend(pairs.input_seen.target.path, pairs.call.args[2])
        /\ (/\ pairs.input_seen.source.scheme \in SERVER_SCHEMES
            /\ path_is_absolute(pairs.input_seen.source.path)) =>
              pairs.result_seen.source.path
                  = descend(pairs.input_seen.source.path, pairs.call.args[1])


----------------------------------------------------------------------------
(* ManagedCluster.probe, with every answer of the control plane *)

\* c.probe(), the lookup answered with full metadata, with partial metadata,
\* or with an exception.
ProbeAny(c) ==
    /\ ctl[c].made
    /\ \E o \in AllLookups :
          LET r == probe(ctl[c], o) IN
          /\ ctl' = [ctl EXCEPT ![c] = r.self]
          /\ last' = Called("probe", c, ctl[c], <<>>, r)
    /\ UNCHANGED <<cache, nconn, served, standalone, dbaddress, pairs>>

NextProbe ==
    \/ Construct(Main)
    \/ ProbeAny(Main)

SpecProbe == Init /\ [][NextProbe]_vars

\* C21: after every probe() call that returns normally, from any reachable
\* state of the controller, exists is true if and only if info.cloud is not
\* empty.
C21_ExistsIffCloudNonEmpty ==
    (last.op = "probe" /\ last.raised = NoErr) =>
        (Receiver.exists <=> DictTruthy(Receiver.info))

\* C21 witness: a probe of a controller that had exists == true and an empty
\* info.cloud returns normally, with exists == false.
C21_Witness ==
    /\ last.op = "probe"
    /\ last.raised = NoErr
    /\ last.pre.exists = TRUE
    /\ ~DictTruthy(last.pre.info)
    /\ Receiver.exists = FALSE
    /\ ~DictTruthy(Receiver.info)


----------------------------------------------------------------------------
(* Properties of ManagedCluster.get_client_bundle: freshness *)

\* C22: the bundle that get_client_bundle(username, password) returns is
\* connected to the address derived from the controller's current
\* info.cloud["url"] and the currently effective credentials; after a probe
\* changed the URL, a call with the same arguments does not return a bundle
\* built for the previous URL.
C22_BundleFollowsCurrentUrl ==
    (last.op = "get_client_bundle" /\ last.raised = NoErr) =>
        last.bundle.dburi = bundle_address(Receiver, last.args[1], last.args[2])

====
